---- MODULE Spec2Model ----
(***************************************************************************)
(* honeypot-scanner.ts as a state machine: one run of main() is            *)
(*   load -> update balances -> findCandidates -> verify candidates        *)
(*        -> persist scams.json -> render and write README.md              *)
(* The model is one run, started from whatever earlier runs left on disk.   *)
(*                                                                         *)
(* Strings are TLA+ strings.  A JavaScript null/undefined in a slot that   *)
(* the code only tests for truthiness (tx.to, tx.input, SourceCode,        *)
(* ContractName, the value checkSourceCode returns) is the empty string:   *)
(* both are falsy and the code cannot tell them apart.                     *)
(* Amounts are integers in base units, WeiPerEth of them to one ETH        *)
(* (1e18 in the code, scaled down to fit TLC's integers).          *)
(***************************************************************************)
EXTENDS Integers, Sequences, FiniteSets, TLC

VARIABLES
    pc,            \* position of main()
    clock,         \* what new Date() reads during the current run
    apiKey,        \* process.env.ETHERSCAN_API_KEY of the current run
    scamsFile,     \* scams.json on disk
    readme,        \* README.md on disk
    db,            \* main: let db
    idx,           \* index of the loop main() is in
    res,           \* the response the last request() returned
    attempts,      \* number of fetch() calls the last request() made
    currentBlock,  \* findCandidates: const currentBlock
    requested,     \* findCandidates: the block tags requested so far
    candidates,    \* findCandidates: the Set, in insertion order
    name,          \* main: const name (result of checkSourceCode)
    readmeContent, \* main: let readmeContent
    table          \* main: let table

vars == <<pc, clock, apiKey, scamsFile, readme, db, idx, res, attempts,
          currentBlock, requested, candidates, name, readmeContent, table>>

(***************************************************************************)
(* Bounds of the model                                                     *)
(***************************************************************************)
MaxInitDb == 1
MaxTxPerBlock == 1
MaxFragments == 4
MaxDocChunks == 4
MaxReportDb == 1

(***************************************************************************)
(* JavaScript string primitives                                            *)
(***************************************************************************)
Truthy(s) == s # ""

\* a local constant: body applied to the value of v, which is computed once
With(v, body(_)) == CHOOSE out \in {body(x) : x \in {v}} : TRUE

CharAt(s, i) == SubSeq(s, i, i)

UpperChars == "ABCDEFGHIJKLMNOPQRSTUVWXYZ"
LowerChars == "abcdefghijklmnopqrstuvwxyz"

\* each upper-case letter with its lower-case letter
UpperToLower ==
    [c \in {CharAt(UpperChars, i) : i \in 1..Len(UpperChars)} |->
        CharAt(LowerChars, CHOOSE i \in 1..Len(UpperChars) : CharAt(UpperChars, i) = c)]

LowerChar(c) == IF c \in DOMAIN UpperToLower THEN UpperToLower[c] ELSE c

RECURSIVE toLowerCase(_)
toLowerCase(s) ==
    With(s, LAMBDA str :
        IF str = "" THEN ""
        ELSE LowerChar(CharAt(str, 1)) \o toLowerCase(SubSeq(str, 2, Len(str))))

startsWith(s, p) == Len(s) >= Len(p) /\ SubSeq(s, 1, Len(p)) = p

\* String.prototype.indexOf(p, from), 1-based; 0 when p does not occur
indexOf(s, p, from) ==
    With({i \in from..(Len(s) - Len(p) + 1) : SubSeq(s, i, i + Len(p) - 1) = p},
         LAMBDA hits : IF hits = {} THEN 0 ELSE CHOOSE i \in hits : \A j \in hits : i <= j)

includes(s, p) == indexOf(s, p, 1) # 0

slice(s, n) == SubSeq(s, 1, IF Len(s) < n THEN Len(s) ELSE n)

Digits == "0123456789abcdef"

DigitValue(c) == (CHOOSE i \in 1..Len(Digits) : CharAt(Digits, i) = c) - 1

IsDigit(c, radix) == \E i \in 1..radix : CharAt(Digits, i) = c

\* the value of the longest prefix of s made of digits of the radix
RECURSIVE ParseDigits(_, _, _)
ParseDigits(s, radix, acc) ==
    IF s = "" \/ ~IsDigit(CharAt(s, 1), radix) THEN acc
    ELSE ParseDigits(SubSeq(s, 2, Len(s)), radix, acc * radix + DigitValue(CharAt(s, 1)))

RECURSIVE AllDigits(_, _)
AllDigits(s, radix) ==
    s = "" \/ (IsDigit(CharAt(s, 1), radix) /\ AllDigits(SubSeq(s, 2, Len(s)), radix))

NaN == -1

\* parseInt(s, 16); s = "" stands for undefined
parseInt16(s) ==
    LET body == IF startsWith(toLowerCase(s), "0x") THEN SubSeq(s, 3, Len(s)) ELSE s
        low  == toLowerCase(body)
    IN IF low = "" \/ ~IsDigit(CharAt(low, 1), 16) THEN NaN ELSE ParseDigits(low, 16, 0)

\* Number.prototype.toString(16)
RECURSIVE toString16(_)
toString16(n) ==
    IF n = NaN THEN "NaN"
    ELSE IF n < 16 THEN CharAt(Digits, n + 1)
    ELSE toString16(n \div 16) \o CharAt(Digits, (n % 16) + 1)

(***************************************************************************)
(* Configuration                                                           *)
(***************************************************************************)
FINGERPRINTS == <<"responseHash", "function Try(string", "function Start(", "isAdmin">>

WeiPerEth == 1000

\* the failure value of request()
FailureValue == [status |-> "0"]

\* a field of a parsed JSON object; "" when absent
Field(obj, f) == IF f \in DOMAIN obj THEN obj[f] ELSE ""

\* request() as it would be with three attempts before the failure value
requestRetrying(outcome) ==
    IF outcome.throws
    THEN [res |-> FailureValue, attempts |-> 3]
    ELSE [res |-> outcome.json, attempts |-> 1]

(***************************************************************************)
(* Scanner.request: one fetch; a throw of fetch() or of res.json() gives   *)
(* the failure value.  outcome.throws says whether the attempt threw,      *)
(* outcome.json is the parsed body otherwise.                              *)
(***************************************************************************)
request(outcome) ==
    IF outcome.throws
    THEN [res |-> FailureValue, attempts |-> 1]
    ELSE [res |-> outcome.json, attempts |-> 1]

Threw == [throws |-> TRUE]
Body(json) == [throws |-> FALSE, json |-> json]

\* BigInt(x): throws on undefined and on a non-numeric string; BigInt("") is 0n
BigIntThrows(obj) == "result" \notin DOMAIN obj \/ ~AllDigits(obj.result, 10)

\* getBalance as it would be if a non-success status threw
getBalanceOrThrow(r) ==
    IF Field(r, "status") = "1" /\ ~BigIntThrows(r)
    THEN [throws |-> FALSE, value |-> ParseDigits(r.result, 10, 0)]
    ELSE [throws |-> TRUE, value |-> 0]

\* Scanner.getBalance on the response of its request
getBalance(r) ==
    IF Field(r, "status") = "1"
    THEN IF BigIntThrows(r) THEN [throws |-> TRUE, value |-> 0]
         ELSE [throws |-> FALSE, value |-> ParseDigits(r.result, 10, 0)]
    ELSE [throws |-> FALSE, value |-> 0]

\* the status with >= for >
StatusOfInclusive(balance) == IF balance * 100 >= WeiPerEth THEN "ACTIVE" ELSE "DRAINED"

\* balance > 0.01 ? "ACTIVE" : "DRAINED", balance being value / WeiPerEth
StatusOf(balance) == IF balance * 100 > WeiPerEth THEN "ACTIVE" ELSE "DRAINED"

toISOString(t) == "2025-12-0" \o ToString(t) \o "T06:00:00.000Z"

(***************************************************************************)
(* What the explorer API, the chain and the disk can hold.  A body is the   *)
(* parsed JSON cut down to the fields the code reads, and to one other     *)
(* field where two endpoints would else give bodies of the same shape.     *)
(***************************************************************************)
WeiResults == {"0", "10", "11"}

RateLimited == [status |-> "0", message |-> "NOTOK", result |-> "Max rate limit reached"]

\* bodies of the balance endpoint: a balance, a body without result, a refusal
BalanceOutcomes ==
    {Threw, Body([status |-> "1"]), Body(RateLimited)}
        \cup {Body([status |-> "1", message |-> "OK", result |-> w]) : w \in WeiResults}

BlockNumberOutcomes == {Threw, Body(RateLimited), Body([jsonrpc |-> "2.0", id |-> "83", result |-> "0x4B"])}

Tx(to, input) == [to |-> to, input |-> input]

\* the sequences over S of length at most n
SeqsUpTo(S, n) == UNION {[1..k -> S] : k \in 0..n}

\* blocks a whole run is served: one call each, to addresses equal but for case
RunTxLists == {<<Tx("0xab", "0xc76de3e9")>>, <<Tx("0xAB", "0x5f3d328e00")>>}

\* transactions of any kind: calls and contract creations (to is null), with a
\* known selector, one in upper case, a cut one, another one, or no input
AnyTxs ==
    {Tx(to, input) : to \in {"", "0xab", "0xAB"},
                     input \in {"0xc76de3e9", "0x5f3d328e00", "0xC76DE3E9", "0xa9059cbb"}}
        \cup {Tx("0xab", ""), Tx("0xab", "0x5f3d32")}

AnyTxLists == SeqsUpTo(AnyTxs, MaxTxPerBlock)

BlockBody(txs) == Body([jsonrpc |-> "2.0", result |-> [number |-> "0x3c", transactions |-> txs]])

\* a block endpoint answer whose result carries no transactions
NoBlock == Body([jsonrpc |-> "2.0", result |-> [number |-> "0x3c"]])

RunBlockOutcomes == {Threw} \cup {BlockBody(txs) : txs \in RunTxLists}

AnyBlockOutcomes == {Threw, NoBlock} \cup {BlockBody(txs) : txs \in AnyTxLists}

QuizSource == "responseHash;function Try(string r);function Start(string q);isAdmin"

SourceBody(source, contract) ==
    Body([status |-> "1", result |-> <<[SourceCode |-> source, ContractName |-> contract]>>])

\* bodies of the source endpoint: the quiz source, another source, a body
\* without result
RunSourceOutcomes ==
    {Threw, Body([status |-> "1"]), SourceBody(QuizSource, "Quiz"),
     SourceBody("function Try(string r);isAdmin", "Token")}

\* pieces of source text: the fingerprints, one in another case, one cut short
Fragments ==
    {"responseHash", "function Try(string", "function Start(", "isAdmin",
     "responsehash", "function Try("}

RECURSIVE concat(_)
concat(pieces) == IF pieces = <<>> THEN "" ELSE Head(pieces) \o concat(Tail(pieces))

SourceTexts == {concat(pieces) : pieces \in SeqsUpTo(Fragments, MaxFragments)}

AnySourceOutcomes ==
    {Threw, Body(RateLimited), Body([status |-> "1"]),
     Body([status |-> "1", result |-> <<>>]),
     Body([status |-> "0", result |-> <<[SourceCode |-> QuizSource, ContractName |-> "Quiz"]>>])}
        \cup {SourceBody(text, contract) : text \in SourceTexts, contract \in {"", "Quiz"}}

Entity(address, balance, contract, first, last) ==
    [address |-> address, chain |-> "ethereum", balance |-> balance, name |-> contract,
     first_seen |-> first, last_updated |-> last, status |-> StatusOf(balance)]

\* entities an earlier run left in scams.json
InitEntities ==
    {Entity("0xAB", 11, "Quiz", toISOString(0), toISOString(0)),
     Entity("0xcd", 0, "Unknown", toISOString(0), toISOString(0))}

Absent == [kind |-> "absent"]
Corrupt == [kind |-> "corrupt"]
\* JSON.stringify, and JSON.parse back: strings and finite numbers round-trip
Json(data) == [kind |-> "json", data |-> data]

START_MARKER == "<!-- SCAM_LIST_START -->"
END_MARKER == "<!-- SCAM_LIST_END -->"

NoReadme == [exists |-> FALSE, content |-> ""]
Document(text) == [exists |-> TRUE, content |-> text]

\* documents made of markers and text in any order
Documents ==
    {Document(concat(chunks)) :
        chunks \in SeqsUpTo({START_MARKER, END_MARKER, "text\n"}, MaxDocChunks)}

\* entities whose names carry what the rendering and the replacement treat specially
ReportEntities ==
    {Entity("0xcd", 11, contract, toISOString(0), toISOString(1)) :
        contract \in {"Quiz", " a|b ", "p$'q", "p$&q$$"}}

InitReadmes ==
    {NoReadme, Document("# Tracker\n" \o START_MARKER \o "old" \o END_MARKER \o "\nfooter")}

NoResponse == [pending |-> "yes"]

Init ==
    /\ pc = "main"
    /\ clock = 1
    /\ apiKey \in {"", "KEY"}
    /\ scamsFile \in {Absent, Corrupt} \cup {Json(d) : d \in SeqsUpTo(InitEntities, MaxInitDb)}
    /\ readme \in InitReadmes
    /\ db = <<>>
    /\ idx = 0
    /\ res = NoResponse
    /\ attempts = 0
    /\ currentBlock = 0
    /\ requested = {}
    /\ candidates = <<>>
    /\ name = ""
    /\ readmeContent = ""
    /\ table = ""

(***************************************************************************)
(* main(), one action per step                                             *)
(***************************************************************************)
ScanDepth == 10
Lookback == 50

\* if (!apiKey) throw new Error("Missing ETHERSCAN_API_KEY")
CheckKey ==
    /\ pc = "main"
    /\ pc' = IF Truthy(apiKey) THEN "load" ELSE "aborted"
    /\ UNCHANGED <<clock, apiKey, scamsFile, readme, db, idx, res, attempts,
                   currentBlock, requested, candidates, name, readmeContent, table>>

\* 1. Load existing Database
LoadDb ==
    /\ pc = "load"
    /\ db' = IF scamsFile.kind = "json" THEN scamsFile.data ELSE <<>>
    /\ idx' = 1
    /\ pc' = "update"
    /\ UNCHANGED <<clock, apiKey, scamsFile, readme, res, attempts,
                   currentBlock, requested, candidates, name, readmeContent, table>>

\* the update as it would be if it stamped every date of the entity
RefreshedWhole(scam, bal) ==
    [scam EXCEPT !.balance = bal,
                 !.first_seen = toISOString(clock),
                 !.last_updated = toISOString(clock),
                 !.status = StatusOf(bal)]

\* what one pass of the update loop leaves in the entity
Refreshed(scam, bal) ==
    [scam EXCEPT !.balance = bal,
                 !.last_updated = toISOString(clock),
                 !.status = StatusOf(bal)]

\* 2. Update balances of known scams: one pass of the loop
UpdateBalance ==
    /\ pc = "update"
    /\ idx <= Len(db)
    /\ \E outcome \in BalanceOutcomes :
         LET r == request(outcome)
             bal == getBalance(r.res)
         IN /\ res' = r.res
            /\ attempts' = r.attempts
            /\ db' = IF bal.throws THEN db
                     ELSE [db EXCEPT ![idx] = Refreshed(db[idx], bal.value)]
    /\ idx' = idx + 1
    /\ UNCHANGED <<pc, clock, apiKey, scamsFile, readme,
                   currentBlock, requested, candidates, name, readmeContent, table>>

UpdateDone ==
    /\ pc = "update"
    /\ idx > Len(db)
    /\ pc' = "blockNumber"
    /\ UNCHANGED <<clock, apiKey, scamsFile, readme, db, idx, res, attempts,
                   currentBlock, requested, candidates, name, readmeContent, table>>

\* getBlockNumber as it would be if a failed request threw out of findCandidates,
\* which main() calls outside any try
GetBlockNumberOrThrow ==
    /\ pc = "blockNumber"
    /\ \E outcome \in BlockNumberOutcomes :
         LET r == request(outcome)
         IN /\ res' = r.res
            /\ attempts' = r.attempts
            /\ currentBlock' = parseInt16(Field(r.res, "result"))
            /\ pc' = IF Field(r.res, "status") = "0" THEN "aborted" ELSE "scan"
    /\ candidates' = <<>>
    /\ requested' = {}
    /\ idx' = 0
    /\ UNCHANGED <<clock, apiKey, scamsFile, readme, db, name, readmeContent, table>>

\* findCandidates: const currentBlock = await this.getBlockNumber()
GetBlockNumber ==
    /\ pc = "blockNumber"
    /\ \E outcome \in BlockNumberOutcomes :
         LET r == request(outcome)
         IN /\ res' = r.res
            /\ attempts' = r.attempts
            /\ currentBlock' = parseInt16(Field(r.res, "result"))
    /\ candidates' = <<>>
    /\ requested' = {}
    /\ idx' = 0
    /\ pc' = "scan"
    /\ UNCHANGED <<clock, apiKey, scamsFile, readme, db, name, readmeContent, table>>

\* Set.prototype.add, the Set kept in insertion order
add(set, x) == IF \E k \in 1..Len(set) : set[k] = x THEN set ELSE Append(set, x)

\* the loop body as it would be with the Start selector alone
scanTxStartOnly(set, tx) ==
    IF Truthy(tx.to) /\ startsWith(tx.input, "0xc76de3e9") THEN add(set, tx.to) ELSE set

\* the body of the loop over res.result.transactions
scanTx(set, tx) ==
    IF Truthy(tx.to)
    THEN LET input == IF Truthy(tx.input) THEN tx.input ELSE ""
         IN IF startsWith(input, "0xc76de3e9") \/ startsWith(input, "0x5f3d328e")
            THEN add(set, tx.to)
            ELSE set
    ELSE set

RECURSIVE scanTransactions(_, _)
scanTransactions(set, txs) ==
    IF txs = <<>> THEN set ELSE scanTransactions(scanTx(set, Head(txs)), Tail(txs))

\* if (res.result && res.result.transactions)
Transactions(r) ==
    IF "result" \in DOMAIN r /\ "transactions" \in DOMAIN r.result
    THEN r.result.transactions
    ELSE <<>>

blockTag(blockNum) == "0x" \o toString16(blockNum)

\* one pass of the loop for (let i = 0; i < 10; i++)
ScanBlock(outcomes) ==
    /\ pc = "scan"
    /\ idx < ScanDepth
    /\ LET blockNum == IF currentBlock = NaN THEN NaN ELSE currentBlock - idx
       IN requested' = requested \cup {blockTag(blockNum)}
    /\ \E outcome \in outcomes :
         LET r == request(outcome)
         IN /\ res' = r.res
            /\ attempts' = r.attempts
            /\ candidates' = scanTransactions(candidates, Transactions(r.res))
    /\ idx' = idx + 1
    /\ UNCHANGED <<pc, clock, apiKey, scamsFile, readme, db, currentBlock,
                   name, readmeContent, table>>

FetchBlock == ScanBlock(RunBlockOutcomes)

FetchAnyBlock == ScanBlock(AnyBlockOutcomes)

\* return Array.from(candidates), and main goes on to its loop over them
ScanDone ==
    /\ pc = "scan"
    /\ idx >= ScanDepth
    /\ idx' = 1
    /\ pc' = "verify"
    /\ UNCHANGED <<clock, apiKey, scamsFile, readme, db, res, attempts,
                   currentBlock, requested, candidates, name, readmeContent, table>>

\* the comparison without toLowerCase
sameAddressExact(a, b) == a = b

\* db.find(x => x.address.toLowerCase() === address.toLowerCase())
sameAddress(a, b) == toLowerCase(a) = toLowerCase(b)

inDb(list, address) == \E k \in 1..Len(list) : sameAddress(list[k].address, address)

\* checkSourceCode as it would be with some() for every()
checkSourceCodeAny(r) ==
    IF Field(r, "status") = "1" /\ "result" \in DOMAIN r /\ Len(r.result) >= 1
       /\ Truthy(Field(r.result[1], "SourceCode"))
       /\ \E k \in 1..Len(FINGERPRINTS) : includes(r.result[1].SourceCode, FINGERPRINTS[k])
    THEN [throws |-> FALSE,
          value |-> IF Truthy(Field(r.result[1], "ContractName"))
                    THEN r.result[1].ContractName ELSE "Unknown"]
    ELSE [throws |-> Field(r, "status") = "1" /\ "result" \notin DOMAIN r, value |-> ""]

\* Scanner.checkSourceCode on the response of its request: the contract name,
\* "" for null; throws when res.result is undefined under status "1"
checkSourceCode(r) ==
    IF Field(r, "status") = "1"
    THEN IF "result" \notin DOMAIN r THEN [throws |-> TRUE, value |-> ""]
         ELSE IF Len(r.result) >= 1 /\ Truthy(Field(r.result[1], "SourceCode"))
              THEN LET source == r.result[1].SourceCode
                       matches == \A k \in 1..Len(FINGERPRINTS) : includes(source, FINGERPRINTS[k])
                   IN IF matches
                      THEN [throws |-> FALSE,
                            value |-> IF Truthy(Field(r.result[1], "ContractName"))
                                      THEN r.result[1].ContractName ELSE "Unknown"]
                      ELSE [throws |-> FALSE, value |-> ""]
              ELSE [throws |-> FALSE, value |-> ""]
    ELSE [throws |-> FALSE, value |-> ""]

\* one pass of the loop over the candidates up to the source check:
\* a known address is skipped, a candidate without a match is dropped
VerifyCandidate(outcomes) ==
    /\ pc = "verify"
    /\ idx <= Len(candidates)
    /\ IF inDb(db, candidates[idx])
       THEN /\ idx' = idx + 1
            /\ UNCHANGED <<pc, res, attempts, name>>
       ELSE \E outcome \in outcomes :
              LET r == request(outcome)
                  found == checkSourceCode(r.res)
              IN /\ res' = r.res
                 /\ attempts' = r.attempts
                 /\ IF ~found.throws /\ Truthy(found.value)
                    THEN /\ name' = found.value
                         /\ pc' = "create"
                         /\ idx' = idx
                    ELSE /\ name' = name
                         /\ pc' = pc
                         /\ idx' = idx + 1
    /\ UNCHANGED <<clock, apiKey, scamsFile, readme, db, currentBlock, requested,
                   candidates, readmeContent, table>>

CheckSource == VerifyCandidate(RunSourceOutcomes)

CheckAnySource == VerifyCandidate(AnySourceOutcomes)

\* the entity db.push receives
Created(address, balance, contract) ==
    [address |-> address, chain |-> "ethereum", balance |-> balance, name |-> contract,
     first_seen |-> toISOString(clock), last_updated |-> toISOString(clock),
     status |-> StatusOf(balance)]

\* the rest of the pass for a match: its balance, and db.push
CreateEntity ==
    /\ pc = "create"
    /\ \E outcome \in BalanceOutcomes :
         LET r == request(outcome)
             bal == getBalance(r.res)
         IN /\ res' = r.res
            /\ attempts' = r.attempts
            /\ db' = IF bal.throws THEN db
                     ELSE Append(db, Created(candidates[idx], bal.value, name))
    /\ idx' = idx + 1
    /\ pc' = "verify"
    /\ UNCHANGED <<clock, apiKey, scamsFile, readme, currentBlock, requested,
                   candidates, name, readmeContent, table>>

\* 4. Save Database
Persist ==
    /\ pc = "verify"
    /\ idx > Len(candidates)
    /\ scamsFile' = Json(db)
    /\ pc' = "readme"
    /\ UNCHANGED <<clock, apiKey, readme, db, idx, res, attempts, currentBlock,
                   requested, candidates, name, readmeContent, table>>

(***************************************************************************)
(* 5. Update README with Marker System                                     *)
(***************************************************************************)
DefaultReadme == "# Scam Tracker\n\n" \o START_MARKER \o "\n" \o END_MARKER

\* readFile(readmePath), or the basic document when it throws
ReadReadme ==
    /\ pc = "readme"
    /\ readmeContent' = IF readme.exists THEN readme.content ELSE DefaultReadme
    /\ pc' = "render"
    /\ UNCHANGED <<clock, apiKey, scamsFile, readme, db, idx, res, attempts,
                   currentBlock, requested, candidates, name, table>>

\* the comparator of db.sort: negative when a goes first
compare(a, b) ==
    IF a.status = "ACTIVE" /\ b.status # "ACTIVE" THEN -1
    ELSE IF a.status # "ACTIVE" /\ b.status = "ACTIVE" THEN 1
    ELSE b.balance - a.balance

\* x put into a sorted list behind everything that does not go after it
RECURSIVE insert(_, _)
insert(sorted, x) ==
    With(sorted, LAMBDA list :
        IF list = <<>> THEN <<x>>
        ELSE IF compare(x, Head(list)) < 0 THEN <<x>> \o list
        ELSE <<Head(list)>> \o insert(Tail(list), x))

\* Array.prototype.sort with that comparator (a stable sort)
RECURSIVE sort(_)
sort(list) ==
    IF list = <<>> THEN <<>>
    ELSE insert(sort(SubSeq(list, 1, Len(list) - 1)), list[Len(list)])

\* String.prototype.replace(/\|/g, "-")
RECURSIVE replacePipes(_)
replacePipes(s) ==
    With(s, LAMBDA str : With(indexOf(str, "|", 1), LAMBDA at :
        IF at = 0 THEN str
        ELSE SubSeq(str, 1, at - 1) \o "-" \o replacePipes(SubSeq(str, at + 1, Len(str)))))

RECURSIVE trim(_)
trim(s) ==
    With(s, LAMBDA str :
        IF str # "" /\ CharAt(str, 1) = " " THEN trim(SubSeq(str, 2, Len(str)))
        ELSE IF str # "" /\ CharAt(str, Len(str)) = " " THEN trim(SubSeq(str, 1, Len(str) - 1))
        ELSE str)

\* s.split("T")[0]
beforeT(s) == With(indexOf(s, "T", 1), LAMBDA at : IF at = 0 THEN s ELSE SubSeq(s, 1, at - 1))

pad4(n) ==
    IF n < 10 THEN "000" \o ToString(n)
    ELSE IF n < 100 THEN "00" \o ToString(n)
    ELSE IF n < 1000 THEN "0" \o ToString(n)
    ELSE ToString(n)

\* (value / WeiPerEth).toFixed(4)
toFixed4(value) ==
    LET scaled == (value * 10000) \div WeiPerEth
    IN ToString(scaled \div 10000) \o "." \o pad4(scaled % 10000)

row(s) ==
    LET link == "https://etherscan.io/address/" \o s.address
        safeName == trim(replacePipes(IF Truthy(s.name) THEN s.name ELSE "Unknown"))
        dateStr == IF Truthy(s.first_seen) THEN beforeT(s.first_seen) ELSE "Unknown"
    IN "| " \o safeName \o " | [" \o slice(s.address, 8) \o "...](" \o link \o ") | **"
         \o toFixed4(s.balance) \o "** | " \o s.status \o " | " \o dateStr \o " |\n"

RECURSIVE rows(_)
rows(list) == IF list = <<>> THEN "" ELSE row(Head(list)) \o rows(Tail(list))

\* format(new Date(), "yyyy-MM-dd HH:mm:ss")
formatNow == "2025-12-0" \o ToString(clock) \o " 06:00:00"

\* Generate the Table: db is sorted in place, then rendered
RenderTable ==
    /\ pc = "render"
    /\ \E sorted \in {sort(db)} :
          /\ db' = sorted
          /\ table' = "\n| Name | Address | Balance | Status | First Seen |\n"
                        \o "|---|---|---|---|---|\n"
                        \o rows(sorted)
                        \o "\n*Last Updated: " \o formatNow \o " UTC*\n"
    /\ pc' = "write"
    /\ UNCHANGED <<clock, apiKey, scamsFile, readme, idx, res, attempts, currentBlock,
                   requested, candidates, name, readmeContent>>

\* the end of the match as a greedy quantifier would set it: the last end marker
matchEndGreedy(s, from) ==
    LET hits == {i \in (from + Len(START_MARKER))..(Len(s) - Len(END_MARKER) + 1) :
                    SubSeq(s, i, i + Len(END_MARKER) - 1) = END_MARKER}
    IN IF hits = {} THEN 0 ELSE CHOOSE i \in hits : \A j \in hits : j <= i

\* where the lazy quantifier ends a match that starts at from
matchEnd(s, from) == indexOf(s, END_MARKER, from + Len(START_MARKER))

\* /<!-- SCAM_LIST_START -->[\s\S]*?<!-- SCAM_LIST_END -->/ on s: the leftmost
\* start marker with an end marker behind it, up to the nearest such end marker
markerRegex(s) ==
    With(indexOf(s, START_MARKER, 1), LAMBDA from :
        With(IF from = 0 THEN 0 ELSE matchEnd(s, from), LAMBDA to :
            [found |-> from # 0 /\ to # 0, from |-> from, to |-> to + Len(END_MARKER) - 1]))

\* the replacement patterns of String.prototype.replace in a replacement string
\* ($$, $& and $'; the pattern has no groups, so $1.. stay as written)
RECURSIVE substitute(_, _, _)
substitute(r, matched, after) ==
    With(r, LAMBDA str : With(indexOf(str, "$", 1), LAMBDA at :
        With(IF at # 0 /\ at < Len(str) THEN CharAt(str, at + 1) ELSE "", LAMBDA next :
            IF at = 0 THEN str
            ELSE IF next = "$"
                 THEN SubSeq(str, 1, at) \o substitute(SubSeq(str, at + 2, Len(str)), matched, after)
            ELSE IF next = "&"
                 THEN SubSeq(str, 1, at - 1) \o matched
                          \o substitute(SubSeq(str, at + 2, Len(str)), matched, after)
            ELSE IF next = "'"
                 THEN SubSeq(str, 1, at - 1) \o after
                          \o substitute(SubSeq(str, at + 2, Len(str)), matched, after)
            ELSE SubSeq(str, 1, at) \o substitute(SubSeq(str, at + 1, Len(str)), matched, after))))

\* readmeContent.replace(markerRegex, replacement), a match being there
replace(s, replacement) ==
    With(markerRegex(s), LAMBDA m :
        With(SubSeq(s, m.to + 1, Len(s)), LAMBDA after :
            With(SubSeq(s, m.from, m.to), LAMBDA matched :
                SubSeq(s, 1, m.from - 1) \o substitute(replacement, matched, after) \o after)))

\* replace between the markers, or append a marker block
WriteReport ==
    /\ pc = "write"
    /\ readme' = IF markerRegex(readmeContent).found
                 THEN Document(replace(readmeContent, START_MARKER \o table \o END_MARKER))
                 ELSE Document(readmeContent \o "\n\n" \o START_MARKER \o table \o END_MARKER)
    /\ pc' = "done"
    /\ UNCHANGED <<clock, apiKey, scamsFile, db, idx, res, attempts, currentBlock,
                   requested, candidates, name, readmeContent, table>>

(***************************************************************************)
(* The script                                                              *)
(***************************************************************************)
Next ==
    \/ CheckKey
    \/ LoadDb
    \/ UpdateBalance
    \/ UpdateDone
    \/ GetBlockNumber
    \/ FetchBlock
    \/ ScanDone
    \/ CheckSource
    \/ CreateEntity
    \/ Persist
    \/ ReadReadme
    \/ RenderTable
    \/ WriteReport

Spec == Init /\ [][Next]_vars

\* the script, once launched, runs on until it ends
FairSpec == Spec /\ WF_vars(Next)

(***************************************************************************)
(* findCandidates alone, on blocks of any content                          *)
(***************************************************************************)
InitDiscover ==
    /\ pc = "blockNumber"
    /\ clock = 1
    /\ apiKey = "KEY"
    /\ scamsFile = Absent
    /\ readme = NoReadme
    /\ db = <<>>
    /\ idx = 1
    /\ res = NoResponse
    /\ attempts = 0
    /\ currentBlock = 0
    /\ requested = {}
    /\ candidates = <<>>
    /\ name = ""
    /\ readmeContent = ""
    /\ table = ""

NextDiscover == GetBlockNumber \/ FetchAnyBlock \/ ScanDone

SpecDiscover == InitDiscover /\ [][NextDiscover]_vars

(***************************************************************************)
(* The verification of one candidate, on source of any content             *)
(***************************************************************************)
InitVerify ==
    /\ pc = "verify"
    /\ clock = 1
    /\ apiKey = "KEY"
    /\ scamsFile = Absent
    /\ readme = NoReadme
    /\ db = <<>>
    /\ idx = 1
    /\ res = NoResponse
    /\ attempts = 0
    /\ currentBlock = 75
    /\ requested = {}
    /\ candidates = <<"0xab">>
    /\ name = ""
    /\ readmeContent = ""
    /\ table = ""

NextVerify == CheckAnySource \/ CreateEntity

SpecVerify == InitVerify /\ [][NextVerify]_vars

(***************************************************************************)
(* The report alone, on documents of any content                           *)
(***************************************************************************)
InitReport ==
    /\ pc = "readme"
    /\ clock = 1
    /\ apiKey = "KEY"
    /\ db \in SeqsUpTo(ReportEntities, MaxReportDb)
    /\ scamsFile = Json(db)
    /\ readme \in Documents \cup {NoReadme}
    /\ idx = 1
    /\ res = NoResponse
    /\ attempts = 0
    /\ currentBlock = 75
    /\ requested = {}
    /\ candidates = <<>>
    /\ name = ""
    /\ readmeContent = ""
    /\ table = ""

NextReport == ReadReadme \/ RenderTable \/ WriteReport

SpecReport == InitReport /\ [][NextReport]_vars

(***************************************************************************)
(* Properties                                                              *)
(***************************************************************************)
\* the entities scams.json holds
persisted == IF scamsFile.kind = "json" THEN scamsFile.data ELSE <<>>

ToSet(seq) == {seq[k] : k \in 1..Len(seq)}

\* the addresses of list, lower-cased, are as many as its entities
NoCaseDuplicate(list) ==
    Cardinality({toLowerCase(list[k].address) : k \in 1..Len(list)}) = Len(list)

KeepsAddressesUnique ==
    NoCaseDuplicate(persisted) => NoCaseDuplicate(persisted') /\ NoCaseDuplicate(db')

\* C1: a run that starts from a persisted set without two addresses equal but for
\* letter case leaves a persisted set without two such addresses, and the set in
\* memory has none at any point of the run.
C1_CaseInsensitiveUnique == [][KeepsAddressesUnique]_vars

\* Both spellings of one address were candidates of one pass, and one entity exists.
C1_Witness ==
    /\ pc = "done"
    /\ candidates = <<"0xab", "0xAB">>
    /\ Len(persisted) = 1
    /\ persisted[1].address = "0xab"
    /\ persisted[1].first_seen = toISOString(clock)

StatusMatchesBalance(scam) ==
    /\ scam.status \in {"ACTIVE", "DRAINED"}
    /\ scam.status = "ACTIVE" <=> scam.balance * 100 > WeiPerEth

SetsStatusFromBalance ==
    pc \in {"update", "create"} =>
         \A k \in 1..Len(db') : (k > Len(db) \/ db'[k] # db[k]) => StatusMatchesBalance(db'[k])

\* C2: an entity the update loop has just refreshed, or the verification loop has
\* just created, is ACTIVE exactly when its balance is above 0.01, DRAINED otherwise.
C2_StatusFollowsBalance == [][SetsStatusFromBalance]_vars

\* An entity was refreshed to a balance of exactly 0.01 and is DRAINED.
C2_Witness ==
    /\ pc = "update"
    /\ idx = 2
    /\ db[1].balance * 100 = WeiPerEth
    /\ db[1].last_updated = toISOString(clock)
    /\ db[1].status = "DRAINED"

Occurs(p, s) == \E i \in 1..Len(s) : i + Len(p) - 1 <= Len(s) /\ SubSeq(s, i, i + Len(p) - 1) = p

\* the verified source text a response of the source endpoint carries, "" for none
VerifiedSource(r) ==
    IF Field(r, "status") = "1" /\ "result" \in DOMAIN r /\ Len(r.result) >= 1
    THEN Field(r.result[1], "SourceCode")
    ELSE ""

AllFourPresent(source) ==
    /\ Occurs("responseHash", source)
    /\ Occurs("function Try(string", source)
    /\ Occurs("function Start(", source)
    /\ Occurs("isAdmin", source)

MatchesOnAllFingerprints ==
    (pc = "verify" /\ idx <= Len(candidates) /\ ~inDb(db, candidates[idx])) =>
         /\ (pc' = "create" /\ name' # "") <=>
                (VerifiedSource(res') # "" /\ AllFourPresent(VerifiedSource(res')))
         /\ pc' # "create" => (pc' = "verify" /\ name' = name /\ idx' = idx + 1)

\* C3: the source check of a candidate gives a match (a name, and the run goes on
\* to create the entity) exactly when the response carries verified source text
\* in which all four fingerprints occur, as written.
C3_MatchIffAllFingerprints == [][MatchesOnAllFingerprints]_vars

\* A source with the four fingerprints, among them none in another case, matched.
C3_Witness ==
    /\ pc = "create"
    /\ name = "Quiz"
    /\ VerifiedSource(res) = "isAdmin" \o "function Start(" \o "function Try(string" \o "responseHash"

\* C4 (as amended): every request makes one fetch attempt; an attempt that fails
\* gives the failure value at once, with no second attempt.
C4_SingleAttempt == res # NoResponse => attempts = 1

\* A request has failed and returned the failure value after its one attempt.
C4_Witness == res = FailureValue /\ attempts = 1 /\ pc = "update" /\ idx = 2

\* C4 as stated: the failure value is returned only after a third failed attempt.
C4_Original == res = FailureValue => attempts = 3

\* C5 as stated: when findCandidates returns, every block of the lookback window
\* that ends at the latest block has been requested.
C5_Original ==
    (pc = "verify" /\ currentBlock # NaN) =>
        \A b \in (currentBlock - Lookback + 1)..currentBlock : blockTag(b) \in requested

Selectors == {"0xc76de3e9", "0x5f3d328e"}

\* a call (to is set) whose call data starts with a known selector, as written
IsKnownCall(tx) ==
    /\ tx.to # ""
    /\ Len(tx.input) >= 10
    /\ SubSeq(tx.input, 1, 10) \in Selectors

\* the same, the selector compared without regard to case
IsKnownCallAnyCase(tx) ==
    /\ tx.to # ""
    /\ Len(tx.input) >= 10
    /\ toLowerCase(SubSeq(tx.input, 1, 10)) \in Selectors

AddsKnownCalls ==
    (pc = "scan" /\ idx' = idx + 1) =>
         /\ ToSet(candidates') =
                ToSet(candidates) \cup {tx.to : tx \in {t \in ToSet(Transactions(res')) : IsKnownCall(t)}}
         /\ Cardinality(ToSet(candidates')) = Len(candidates')

\* C6 (as amended): each fetched block adds to the candidates exactly the to address of
\* its calls whose call data starts with a known selector in lower case, as the
\* code writes it; a contract creation adds nothing; no address is there twice.
C6_KnownCallsOnly == [][AddsKnownCalls]_vars

\* A contract creation with a known selector was fetched and added nothing to the
\* candidate a call had given.
C6_Witness ==
    /\ pc = "scan"
    /\ idx >= 2
    /\ Transactions(res) = <<Tx("", "0xc76de3e9")>>
    /\ candidates = <<"0xAB">>

AddsKnownCallsAnyCase ==
    (pc = "scan" /\ idx' = idx + 1) =>
         ToSet(candidates') =
             ToSet(candidates) \cup {tx.to : tx \in {t \in ToSet(Transactions(res')) : IsKnownCallAnyCase(t)}}

\* C6 as stated: the selector is compared without regard to case.
C6_Original == [][AddsKnownCallsAnyCase]_vars

\* the steps of main() in their order
Phase(p) ==
    CASE p = "main" -> 0
      [] p = "load" -> 1
      [] p = "update" -> 2
      [] p = "blockNumber" -> 3
      [] p = "scan" -> 4
      [] p \in {"verify", "create"} -> 5
      [] p = "readme" -> 6
      [] p = "render" -> 7
      [] p = "write" -> 8
      [] p \in {"done", "aborted"} -> 9

\* a step moves the run on: to a later phase, to a later pass of the loop it is
\* in, or from the source check of a pass to its entity creation
MovesOn ==
    \/ Phase(pc') > Phase(pc)
    \/ Phase(pc') = Phase(pc) /\ idx' > idx
    \/ Phase(pc') = Phase(pc) /\ idx' = idx /\ pc = "verify" /\ pc' = "create"

\* the loops are bounded by what they run over
LoopsBounded ==
    /\ pc = "update" => idx <= Len(db) + 1
    /\ pc = "scan" => idx <= ScanDepth
    /\ pc \in {"verify", "create"} => idx <= Len(candidates) + 1

\* scams.json is written when the report step begins, the report when the run is done
WritesInOrder ==
    /\ pc = "readme" => scamsFile = Json(db)
    /\ pc \in {"render", "write", "done"} =>
          scamsFile.kind = "json" /\ ToSet(scamsFile.data) = ToSet(db)
    /\ pc = "done" =>
          readme.exists /\ includes(readme.content, "*Last Updated: " \o formatNow)

\* C7: a run with an API key never aborts: whatever requests, refreshes and
\* verifications fail, every step moves it on through its bounded loops and it
\* comes to its end, having written scams.json and then the report.  A run
\* without a key ends before any request and writes nothing.
C7_ReachesPersistAndReport ==
    /\ (pc = "main") ~> (pc \in {"done", "aborted"})
    /\ [](Truthy(apiKey) => pc # "aborted")
    /\ [](LoopsBounded /\ WritesInOrder)
    /\ [][MovesOn]_vars
    /\ [](~Truthy(apiKey) => pc \in {"main", "aborted"} /\ attempts = 0 /\ res = NoResponse)
    /\ [][~Truthy(apiKey) => UNCHANGED <<scamsFile, readme>>]_<<pc, scamsFile, readme>>

\* The balance request, the block number request and every block request failed,
\* and the run has written both files.
C7_Witness ==
    /\ pc = "done"
    /\ res = FailureValue
    /\ currentBlock = NaN
    /\ candidates = <<>>
    /\ Len(db) = 1 /\ db[1].balance = 0 /\ db[1].last_updated = toISOString(clock)
    /\ scamsFile = Json(db)

OccursAt(s, p, i) == i >= 1 /\ i + Len(p) - 1 <= Len(s) /\ SubSeq(s, i, i + Len(p) - 1) = p

\* a start marker at i with an end marker at j behind it
PairAt(s, i, j) ==
    OccursAt(s, START_MARKER, i) /\ OccursAt(s, END_MARKER, j) /\ j >= i + Len(START_MARKER)

HasPair(s) == \E i, j \in 1..Len(s) : PairAt(s, i, j)

FirstStart(s) ==
    CHOOSE i \in 1..Len(s) :
        (\E j \in 1..Len(s) : PairAt(s, i, j))
            /\ \A h \in 1..(i - 1) : ~\E j \in 1..Len(s) : PairAt(s, h, j)

FirstEndAfter(s, i) ==
    CHOOSE j \in 1..Len(s) : PairAt(s, i, j) /\ \A h \in 1..(j - 1) : ~PairAt(s, i, h)

endsWith(s, p) == Len(s) >= Len(p) /\ SubSeq(s, Len(s) - Len(p) + 1, Len(s)) = p

KeepsOutside ==
    (pc = "write" /\ pc' = "done") =>
         LET old == readmeContent
             new == readme'.content
         IN IF HasPair(old)
            THEN LET i == FirstStart(old)
                     j == FirstEndAfter(old, i)
                     head == SubSeq(old, 1, i - 1) \o START_MARKER
                     tail == END_MARKER \o SubSeq(old, j + Len(END_MARKER), Len(old))
                 IN /\ Len(new) >= Len(head) + Len(tail)
                    /\ startsWith(new, head)
                    /\ endsWith(new, tail)
            ELSE /\ startsWith(new, old \o "\n\n" \o START_MARKER)
                 /\ endsWith(new, END_MARKER)
                 /\ Len(new) >= Len(old) + 2 + Len(START_MARKER) + Len(END_MARKER)

\* C8: the write of the report keeps what stands outside the generated block: with
\* a start marker followed by an end marker, the text up to that start marker and
\* the text from that end marker on are kept; without such a pair the document
\* is kept whole and a marker block is appended to it.
C8_OutsideKept == [][KeepsOutside]_vars

\* A document with text before a marker pair, and a second end marker
\* behind it, has been rewritten.
C8_Witness ==
    /\ pc = "done"
    /\ readmeContent = "text\n" \o START_MARKER \o END_MARKER \o END_MARKER
    /\ readme.content # readmeContent

KeepsFirstSeen ==
    /\ \A k \in 1..Len(persisted) :
           /\ k <= Len(persisted')
           /\ persisted'[k].address = persisted[k].address
           /\ persisted'[k].first_seen = persisted[k].first_seen
    /\ \A k \in 1..Len(db) :
           \E j \in 1..Len(db') :
               db'[j].address = db[k].address /\ db'[j].first_seen = db[k].first_seen

\* C9: no step of a run changes the first_seen of an entity: what scams.json holds
\* keeps its place, address and first_seen, and so does every entity in memory.
C9_FirstSeenKept == [][KeepsFirstSeen]_vars

\* An entity of an earlier run went from ACTIVE to DRAINED in this run, which has
\* written it back with a new last_updated and its old first_seen.
C9_Witness ==
    /\ pc = "done"
    /\ Len(persisted) >= 1
    /\ persisted[1].first_seen = toISOString(0)
    /\ persisted[1].last_updated = toISOString(clock)
    /\ persisted[1].balance = 0
    /\ persisted[1].status = "DRAINED"

ZeroesFailedLookup ==
    (pc = "update" /\ idx' = idx + 1 /\ res' = FailureValue) =>
         /\ Len(db') = Len(db)
         /\ db'[idx].balance = 0
         /\ db'[idx].status = "DRAINED"
         /\ db'[idx].last_updated = toISOString(clock)
         /\ db'[idx].address = db[idx].address

\* C10: when the balance request of the update loop fails, the entity is not
\* skipped: its balance becomes 0, its status DRAINED, its last_updated the time
\* of the run.
C10_FailedLookupIsZero == [][ZeroesFailedLookup]_vars

\* The balance request of an ACTIVE entity failed and the entity is now DRAINED.
C10_Witness ==
    /\ pc = "update"
    /\ idx = 2
    /\ res = FailureValue
    /\ persisted[1].status = "ACTIVE"
    /\ db[1].status = "DRAINED"
    /\ db[1].balance = 0
    /\ db[1].last_updated = toISOString(clock)

====
